---- MODULE Spec2Model ----
(***************************************************************************)
(* Memory game (src/js/script.js): a Go button starts a round of n         *)
(* numbered buttons, the numbers are hidden after n seconds, the buttons   *)
(* are repositioned n times with 2-second pauses, and then the user has to *)
(* click the buttons in their original order.                              *)
(*                                                                         *)
(* Time is counted in seconds.  Each call of playGame is a coroutine that  *)
(* is suspended on one setTimeout; `timers` lists the suspended coroutines *)
(* in the order in which their timeouts were created.  The continuation of *)
(* an await runs in the same task as the timer callback, so one timer      *)
(* firing is one action.                                                   *)
(***************************************************************************)
EXTENDS Integers, Sequences, FiniteSets, TLC

\* number of Go presses explored
MaxGo == 2

\* ---------------------------------------------------------------- constants
MinButtons == 3
MaxButtons == 7
ScramblePause == 2

\* src/lang/messages/en/user.js
MSG_WIN == "Excellent Memory!"
MSG_LOSE == "Wrong Order!"
MSG_START == "Scrambling buttons ...."
MSG_WRONG_INPUT_TYPE == "Please ensure you enter a number from 3 to 7!"
MSG_NOT_IN_RANGE == "Number is not in range, please enter a number from 3 to 7!"
MSG_GAME_STARTED == "Guess the correct order of the buttons"

\* STYLE_CONFIG["BUTTON_COLORS"]
BUTTON_COLORS == <<"red", "blue", "green", "yellow", "orange", "lime", "pink">>

\* a JavaScript number: an integer, or NaN
Number(v) == [nan |-> FALSE, val |-> v]

NaN == [nan |-> TRUE, val |-> 0]

\* texts the user may have typed into the input field, as character sequences
Inputs ==
  { <<>>, <<"a", "b", "c">>, <<" ">>,
    <<"2">>, <<"3">>, <<"4">>, <<"5">>, <<"6">>, <<"7">>, <<"8">>,
    <<"1", "0">>, <<"-", "3">>, <<"0", "4">>,
    <<" ", "5", " ">>, <<"3", "a">>, <<"6", ".", "9">>, <<"+", "7">> }

VARIABLES
  buttons,         \* ButtonManager.buttons: sequence of GameButton
  message,         \* messageArea.innerText
  gameInProgress,  \* GameManager.gameInProgress
  clickedOrder,    \* GameManager.clickedOrder
  ogOrder,         \* GameManager.ogOrder
  timers,          \* suspended playGame coroutines, oldest timeout first
  goCount,         \* number of Go presses so far
  threw,           \* a playGame coroutine ended with an uncaught TypeError
  lost             \* a button was clicked out of order in the current round

vars == <<buttons, message, gameInProgress, clickedOrder, ogOrder, timers,
          goCount, threw, lost>>

\* ------------------------------------------------------------ input parsing
IsSpace(c) == c = " "

DigitChars == <<"0", "1", "2", "3", "4", "5", "6", "7", "8", "9">>

IsDigit(c) == \E d \in 1..10 : DigitChars[d] = c

DigitVal(c) == (CHOOSE d \in 1..10 : DigitChars[d] = c) - 1

RECURSIVE TrimStart(_)
TrimStart(s) ==
  IF s # <<>> /\ IsSpace(Head(s)) THEN TrimStart(Tail(s)) ELSE s

RECURSIVE TrimEnd(_)
TrimEnd(s) ==
  IF s # <<>> /\ IsSpace(s[Len(s)]) THEN TrimEnd(SubSeq(s, 1, Len(s) - 1))
  ELSE s

\* String.prototype.trim
Trim(s) == TrimEnd(TrimStart(s))

\* the longest prefix of s made of decimal digits, as a number; acc is the
\* value of the digits read so far
RECURSIVE ParseDigits(_, _)
ParseDigits(s, acc) ==
  IF s # <<>> /\ IsDigit(Head(s))
  THEN ParseDigits(Tail(s), 10 * acc + DigitVal(Head(s)))
  ELSE acc

\* parseInt(string): leading white space is skipped, an optional sign is
\* read, then the longest run of digits; NaN when there is no digit
ParseInt(str) ==
  LET s == TrimStart(str)
      signed == s # <<>> /\ Head(s) \in {"-", "+"}
      body == IF signed THEN Tail(s) ELSE s
      mag == ParseDigits(body, 0)
  IN IF body = <<>> \/ ~IsDigit(Head(body)) THEN NaN
     ELSE IF signed /\ Head(s) = "-" THEN Number(0 - mag) ELSE Number(mag)

\* ---------------------------------------------------------------- Validator
\* checkInput with the lower limit of the range off by one
CheckInput_LowerOffByOne(input) ==
  IF input.nan THEN FALSE
  ELSE IF input.val <= MinButtons \/ input.val > MaxButtons THEN FALSE
  ELSE TRUE

\* Validator.checkInput: the value it returns
CheckInput(input) ==
  IF input.nan THEN FALSE
  ELSE IF input.val < MinButtons \/ input.val > MaxButtons THEN FALSE
  ELSE TRUE

\* Validator.checkInput: the message area after the call
CheckInputMessage(input, msg) ==
  IF input.nan THEN MSG_WRONG_INPUT_TYPE
  ELSE IF input.val < MinButtons \/ input.val > MaxButtons THEN MSG_NOT_IN_RANGE
  ELSE msg

\* ------------------------------------------------------------------ buttons
\* new GameButton(id, ...) followed by showNumber(); round is the Go press
\* that created the button, moves counts its setLocation calls, listeners
\* its click listeners added with addEventListener, onclick tells whether
\* its onclick property holds a handler
GameButton(id, color, round) ==
  [id |-> id, color |-> color, round |-> round, visible |-> TRUE, moves |-> 0,
   listeners |-> 0, onclick |-> FALSE]

\* splice that removes nothing
Splice_Keep(seq, idx) == seq

\* availableColors.splice(idx, 1), idx counted from 0
Splice(seq, idx) == SubSeq(seq, 1, idx) \o SubSeq(seq, idx + 2, Len(seq))

\* the loop of makeButton from iteration i on; rnd[i + 1] is the value of
\* Math.floor(Math.random() * availableColors.length) in iteration i
RECURSIVE MakeLoop(_, _, _, _, _, _)
MakeLoop(bs, availableColors, i, btnNum, round, rnd) ==
  IF i < btnNum
  THEN LET randomIdx == rnd[i + 1]
           btnColor == availableColors[randomIdx + 1]
       IN MakeLoop(Append(bs, GameButton(i, btnColor, round)),
                   Splice(availableColors, randomIdx), i + 1, btnNum, round, rnd)
  ELSE bs

\* makeButton that numbers the buttons from 1
MakeButton_IdsFromOne(bs, btnNum, round, rnd) ==
  LET made == MakeLoop(<<>>, BUTTON_COLORS, 0, btnNum, round, rnd)
  IN bs \o [i \in 1..btnNum |-> [made[i] EXCEPT !.id = @ + 1]]

\* ButtonManager.makeButton on the collection bs
MakeButton(bs, btnNum, round, rnd) ==
  MakeLoop(bs, BUTTON_COLORS, 0, btnNum, round, rnd)

\* the possible values of rnd for n buttons out of len colours
RECURSIVE Draws(_, _)
Draws(n, len) ==
  IF n = 0 THEN {<<>>}
  ELSE {<<k>> \o r : k \in 0..(len - 1), r \in Draws(n - 1, len - 1)}

\* every outcome of the random choices of one makeButton call
AllDraws == UNION {Draws(n, Len(BUTTON_COLORS)) : n \in MinButtons..MaxButtons}

\* the outcomes explored while a game is played: always the first, or always
\* the last, of the colours still available
GameDraws ==
  UNION {{[i \in 1..n |-> 0], [i \in 1..n |-> Len(BUTTON_COLORS) - i]} :
           n \in MinButtons..MaxButtons}

\* clearButtons that leaves the collection as it is
ClearButtons_Keep(bs) == bs

\* ButtonManager.clearButtons
ClearButtons(bs) == <<>>

HideNumber(b) == [b EXCEPT !.visible = FALSE]

\* showNumber that writes no text
ShowNumber_Nothing(b) == b

ShowNumber(b) == [b EXCEPT !.visible = TRUE]

SetLocation(b) == [b EXCEPT !.moves = @ + 1]

Ids(bs) == [i \in 1..Len(bs) |-> bs[i].id]

\* --------------------------------------------------------------- checkClick
\* The part of the state a click handler works on.
GameState(bs, co, msg) == [buttons |-> bs, clickedOrder |-> co, message |-> msg]

\* a comparison that only looks whether an id is still expected
IsExpected_AnyId(id, og, co) == Len(co) + 1 <= Len(og)

\* button.id === this.ogOrder[this.clickedOrder.length]; the element is
\* undefined past the end of ogOrder, and no id equals undefined
IsExpected(id, og, co) == Len(co) + 1 <= Len(og) /\ id = og[Len(co) + 1]

\* GameManager.checkClick(button) for the button at index k of the collection;
\* the closure holds the button object, og is this.ogOrder
CheckClick(st, k, og) ==
  LET id == st.buttons[k].id
  IN IF IsExpected(id, og, st.clickedOrder)
     THEN LET co == Append(st.clickedOrder, id)
          IN GameState([st.buttons EXCEPT ![k] = ShowNumber(@)], co,
                       IF Len(co) = Len(og) THEN MSG_WIN ELSE st.message)
     ELSE GameState([i \in 1..Len(st.buttons) |->
                       [ShowNumber(st.buttons[i]) EXCEPT !.onclick = FALSE]],
                    st.clickedOrder, MSG_LOSE)

\* the click event of the button at index k: the onclick property's handler
\* (never set by the program) and then every listener, in the order added
RECURSIVE Dispatch(_, _, _, _)
Dispatch(st, k, og, n) ==
  IF n = 0 THEN st ELSE Dispatch(CheckClick(st, k, og), k, og, n - 1)

\* ------------------------------------------------------------------- timers
\* playGame suspended in `await this.pause(userValue * 1000)`
DisplayTimer(round, userValue) ==
  [round |-> round, userValue |-> userValue, pc |-> "display", i |-> 0,
   remaining |-> (userValue * 1000) \div 1000, passes |-> 0, elapsed |-> 0]

\* scrambleButtons suspended in `await this.pause(2000)` of iteration i;
\* passes counts the repositioning passes the coroutine has made, elapsed
\* the seconds since it started
ScrambleTimer(t, i) ==
  [t EXCEPT !.pc = "scramble", !.i = i, !.remaining = ScramblePause,
            !.passes = @ + 1]

\* the timeouts that have expired
Due == {k \in 1..Len(timers) : timers[k].remaining = 0}

\* timeouts expire in the order they were created
NextDue == CHOOSE k \in Due : \A j \in Due : k <= j

Remove(seq, k) == SubSeq(seq, 1, k - 1) \o SubSeq(seq, k + 1, Len(seq))

\* a loop condition that admits one more iteration
LoopContinues_OneMore(i, times) == i <= times

\* the loop condition of scrambleButtons
LoopContinues(i, times) == i < times

\* the forEach of scrambleButtons: every button gets a new location
Reposition(bs) == [i \in 1..Len(bs) |-> SetLocation(bs[i])]

\* memoryTest that adds no listener
MemoryTest_NoListener(bs) == [i \in 1..Len(bs) |-> [bs[i] EXCEPT !.onclick = FALSE]]

\* GameManager.memoryTest: the collection after the listeners are added
MemoryTest(bs) ==
  [i \in 1..Len(bs) |-> [bs[i] EXCEPT !.onclick = FALSE, !.listeners = @ + 1]]

\* ------------------------------------------------------------------ actions
Init ==
  /\ buttons = <<>>
  /\ message = ""
  /\ gameInProgress = FALSE
  /\ clickedOrder = <<>>
  /\ ogOrder = <<>>
  /\ timers = <<>>
  /\ goCount = 0
  /\ threw = FALSE
  /\ lost = FALSE

\* GameManager.initGame with the text raw in the input field, up to the
\* first await of playGame; the random choices are taken from draws
InitGameDraw(raw, draws) ==
  /\ goCount < MaxGo
  /\ LET reset == gameInProgress
         bs0 == IF reset THEN ClearButtons(buttons) ELSE buttons
         msg0 == IF reset THEN "" ELSE message
         og0 == IF reset THEN <<>> ELSE ogOrder
         co0 == IF reset THEN <<>> ELSE clickedOrder
         userValue == ParseInt(Trim(raw))
     IN IF CheckInput(userValue)
        THEN \E rnd \in {d \in draws : Len(d) = userValue.val} :
             LET bs1 == MakeButton(bs0, userValue.val, goCount + 1, rnd)
             IN /\ buttons' = bs1
                /\ message' = MSG_START
                /\ gameInProgress' = TRUE
                /\ ogOrder' = Ids(bs1)
                /\ clickedOrder' = <<>>
                /\ timers' = Append(timers, DisplayTimer(goCount + 1, userValue.val))
        ELSE /\ buttons' = bs0
             /\ message' = CheckInputMessage(userValue, msg0)
             /\ gameInProgress' = FALSE
             /\ ogOrder' = og0
             /\ clickedOrder' = co0
             /\ timers' = timers
  /\ goCount' = goCount + 1
  /\ lost' = FALSE
  /\ UNCHANGED threw

InitGame(raw) == InitGameDraw(raw, GameDraws)

Go == \E raw \in Inputs : InitGame(raw)

\* the first Go press, with every outcome of the random colour choices
FirstGo == \E raw \in Inputs : goCount = 0 /\ InitGameDraw(raw, AllDraws)

\* one second passes; no timeout is overdue
Tick ==
  /\ timers # <<>>
  /\ Due = {}
  /\ timers' = [k \in 1..Len(timers) |->
                  [timers[k] EXCEPT !.remaining = @ - 1, !.elapsed = @ + 1]]
  /\ UNCHANGED <<buttons, message, gameInProgress, clickedOrder, ogOrder,
                 goCount, threw, lost>>

\* playGame resumes after the display delay: the numbers are hidden and
\* scrambleButtons runs up to its first pause
DisplayTimeout ==
  /\ Due # {}
  /\ LET t == timers[NextDue]
         hidden == [i \in 1..Len(buttons) |-> HideNumber(buttons[i])]
     IN /\ t.pc = "display"
        /\ IF hidden = <<>>
           THEN \* buttons[0] is undefined: reading .buttonObj throws
                /\ threw' = TRUE
                /\ buttons' = hidden
                /\ timers' = Remove(timers, NextDue)
           ELSE /\ threw' = threw
                /\ IF LoopContinues(0, t.userValue)
                   THEN /\ buttons' = Reposition(hidden)
                        /\ timers' = Append(Remove(timers, NextDue),
                                            ScrambleTimer(t, 0))
                   ELSE /\ buttons' = hidden
                        /\ timers' = Remove(timers, NextDue)
  /\ UNCHANGED <<message, gameInProgress, clickedOrder, ogOrder, goCount, lost>>

\* scrambleButtons resumes after the pause of iteration i: the next
\* iteration, or the loop ends and playGame calls memoryTest
ScrambleTimeout ==
  /\ Due # {}
  /\ LET t == timers[NextDue]
         i == t.i + 1
     IN /\ t.pc = "scramble"
        /\ IF LoopContinues(i, t.userValue)
           THEN /\ buttons' = Reposition(buttons)
                /\ timers' = Append(Remove(timers, NextDue), ScrambleTimer(t, i))
                /\ message' = message
           ELSE /\ buttons' = MemoryTest(buttons)
                /\ timers' = Remove(timers, NextDue)
                /\ message' = MSG_GAME_STARTED
  /\ UNCHANGED <<gameInProgress, clickedOrder, ogOrder, goCount, threw, lost>>

\* the user clicks the button at index k
Click(k) ==
  /\ k \in 1..Len(buttons)
  /\ LET st == Dispatch(GameState(buttons, clickedOrder, message), k, ogOrder,
                        buttons[k].listeners)
     IN /\ buttons' = st.buttons
        /\ clickedOrder' = st.clickedOrder
        /\ message' = st.message
  /\ lost' = (lost \/ (buttons[k].listeners > 0
                        /\ ~IsExpected(buttons[k].id, ogOrder, clickedOrder)))
  /\ UNCHANGED <<gameInProgress, ogOrder, timers, goCount, threw>>

ClickAny == \E k \in 1..MaxButtons : Click(k)

Next == Go \/ Tick \/ DisplayTimeout \/ ScrambleTimeout \/ ClickAny

Spec == Init /\ [][Next]_vars

\* makeButton on the empty collection, for every input and every outcome of
\* Math.random
SpecMake == Init /\ [][FirstGo]_vars

\* the event loop runs every expired timeout, and time passes
FairSpec ==
  /\ Init /\ [][Next]_vars
  /\ WF_vars(Tick) /\ WF_vars(DisplayTimeout) /\ WF_vars(ScrambleTimeout)

\* ------------------------------------------------------- claims C1 .. C10
\* the Go press that created the buttons on the screen
CurrentRound == buttons[1].round

\* a coroutine of the round whose buttons are on the screen is suspended
RoundPending == \E j \in 1..Len(timers) : timers[j].round = CurrentRound

\* the round on the screen has run its own memoryTest
RecallBegun ==
  /\ buttons # <<>>
  /\ ~RoundPending
  /\ \A i \in 1..Len(buttons) : buttons[i].listeners > 0

\* the input is one of the integers 3..7
ValidInput(raw) ==
  LET v == ParseInt(Trim(raw)) IN ~v.nan /\ v.val \in 3..7

UpTo(n) == [i \in 1..n |-> i - 1]

Visibility(bs) == [i \in 1..Len(bs) |-> bs[i].visible]

\* C1: once recall has begun in a round, a click on the expected button,
\* after nothing but such clicks, is appended to clickedOrder, and the WIN
\* message is displayed at the click that completes ogOrder and not before.
C1_OrderedClicksWin ==
  [][\A k \in 1..MaxButtons :
       (Click(k) /\ RecallBegun /\ ~lost
          /\ IsExpected(buttons[k].id, ogOrder, clickedOrder))
       => /\ clickedOrder' = Append(clickedOrder, buttons[k].id)
          /\ (clickedOrder' = ogOrder) <=> (message' = MSG_WIN)]_vars

\* C2: after a click on a button that is not the expected one, clickedOrder
\* does not change until Go is pressed again.
C2_NoRecordAfterLoss ==
  [][(lost /\ goCount' = goCount) => clickedOrder' = clickedOrder]_vars

\* C3: once the WIN message is displayed, a button click changes neither the
\* message nor clickedOrder nor the visibility of any number.
C3_WonTerminal ==
  [][(message = MSG_WIN /\ ClickAny)
       => /\ message' = MSG_WIN
          /\ clickedOrder' = clickedOrder
          /\ Visibility(buttons') = Visibility(buttons)]_vars

\* C4: a Go press starts a round exactly when the parsed input is one of the
\* integers 3..7; NaN is rejected with WRONG_INPUT_TYPE and a number outside
\* 3..7 with NOT_IN_RANGE, and a rejection creates no button and starts no
\* playGame.
C4_CheckInputAccepts ==
  [][\A raw \in Inputs :
       InitGame(raw)
       => LET v == ParseInt(Trim(raw))
          IN IF ValidInput(raw)
             THEN /\ Len(timers') = Len(timers) + 1
                  /\ timers'[Len(timers')].round = goCount'
                  /\ Len(buttons') = v.val
             ELSE /\ message' = IF v.nan THEN MSG_WRONG_INPUT_TYPE
                                 ELSE MSG_NOT_IN_RANGE
                  /\ \A i \in 1..Len(buttons') : buttons'[i].round # goCount'
                  /\ Len(buttons') <= Len(buttons)
                  /\ timers' = timers]_vars

\* two Go presses were rejected, the second for a text that is no number, and
\* no button and no timer exists
C4_Witness ==
  /\ goCount = 2
  /\ message = MSG_WRONG_INPUT_TYPE
  /\ buttons = <<>>
  /\ timers = <<>>

\* C5: a Go press with an invalid input changes nothing but the message: the
\* buttons, ogOrder, clickedOrder and gameInProgress stay as they were.
C5_InvalidGoNoChange ==
  [][\A raw \in Inputs :
       (InitGame(raw) /\ ~ValidInput(raw))
       => UNCHANGED <<buttons, ogOrder, clickedOrder, gameInProgress>>]_vars

\* C6: at the end of an initGame call with a valid n there are exactly n
\* buttons, with ids 0..n-1, all created by this call, ogOrder is 0..n-1 and
\* clickedOrder is empty.
C6_RestartClean ==
  [][\A raw \in Inputs :
       (InitGame(raw) /\ ValidInput(raw))
       => LET n == ParseInt(Trim(raw)).val
          IN /\ Len(buttons') = n
             /\ \A i \in 1..Len(buttons') :
                  buttons'[i].id = i - 1 /\ buttons'[i].round = goCount'
             /\ ogOrder' = UpTo(n)
             /\ clickedOrder' = <<>>]_vars

\* Go was pressed with 4 while the round started with 3 was scrambling
C6_Witness ==
  /\ goCount = 2
  /\ Len(buttons) = 4
  /\ ogOrder = UpTo(4)
  /\ Len(timers) = 2
  /\ timers[1].round = 1 /\ timers[1].userValue = 3 /\ timers[1].pc = "scramble"
  /\ timers[2].round = 2 /\ timers[2].elapsed = 0

\* C7: after a restart, a timeout of an interrupted round does nothing: it
\* changes neither the buttons of the new round nor the message.
C7_StaleTimersInert ==
  [][((DisplayTimeout \/ ScrambleTimeout)
        /\ buttons # <<>> /\ timers[NextDue].round # CurrentRound)
       => UNCHANGED <<buttons, message>>]_vars

\* C8: while a coroutine of the round on the screen is still suspended in its
\* display delay or in a scramble pause, no button of that round has a click
\* listener.
C8_NoHandlersBeforeRecall ==
  (buttons # <<>> /\ RoundPending)
    => \A i \in 1..Len(buttons) : buttons[i].listeners = 0

C10_NoException == ~threw

\* ------------------------------------------------------ claims C11 .. C18
IsPrefix(s, t) == Len(s) <= Len(t) /\ s = SubSeq(t, 1, Len(s))

HandlersActive == \E i \in 1..Len(buttons) : buttons[i].listeners > 0

\* C11: whenever click handlers are active clickedOrder is a prefix of
\* ogOrder, and clickedOrder grows only by a click that appends the id
\* ogOrder holds at the position of the old length.
C11_ClickedPrefix ==
  [][/\ (\E i \in 1..Len(buttons') : buttons'[i].listeners > 0)
          => IsPrefix(clickedOrder', ogOrder')
     /\ Len(clickedOrder') > Len(clickedOrder)
          => /\ ClickAny
             /\ HandlersActive
             /\ Len(clickedOrder) < Len(ogOrder)
             /\ clickedOrder' = Append(clickedOrder,
                                       ogOrder[Len(clickedOrder) + 1])]_vars

\* two correct clicks have been recorded in a round of four buttons
C11_Witness ==
  /\ HandlersActive
  /\ Len(ogOrder) = 4
  /\ clickedOrder = <<0, 1>>

\* C13: while the display delay of the round on the screen has time left every
\* number of that round is visible, and when that delay ends all numbers are
\* hidden before the first repositioning.
C13_VisibleForDelay ==
  [][/\ \A j \in 1..Len(timers') :
          (buttons' # <<>> /\ timers'[j].round = buttons'[1].round
             /\ timers'[j].pc = "display" /\ timers'[j].remaining > 0)
          => \A i \in 1..Len(buttons') : buttons'[i].visible
     /\ (DisplayTimeout /\ buttons # <<>>
           /\ timers[NextDue].round = CurrentRound)
          => \A i \in 1..Len(buttons') : ~buttons'[i].visible]_vars

\* C14: a click, with handlers attached, on a button that is not the expected
\* one displays the LOSE message, makes every number visible and leaves
\* clickedOrder as it was.
C14_WrongClickLoses ==
  [][\A k \in 1..MaxButtons :
       (Click(k) /\ buttons[k].listeners > 0
          /\ ~(Len(clickedOrder) < Len(ogOrder)
                 /\ buttons[k].id = ogOrder[Len(clickedOrder) + 1]))
       => /\ message' = MSG_LOSE
          /\ \A i \in 1..Len(buttons') : buttons'[i].visible
          /\ Len(buttons') = Len(buttons)
          /\ clickedOrder' = clickedOrder]_vars

\* after one correct click in a round of three, a wrong click has revealed
\* all numbers
C14_Witness ==
  /\ lost
  /\ message = MSG_LOSE
  /\ Len(buttons) = 3
  /\ clickedOrder = <<0>>
  /\ \A i \in 1..Len(buttons) : buttons[i].visible /\ buttons[i].listeners = 1

\* C15: no button ever has more than one click listener.
C15_OneHandlerPerButton ==
  \A i \in 1..Len(buttons) : buttons[i].listeners <= 1

\* C17: ogOrder is the sequence of the ids of the buttons, which is empty or
\* 0..N-1 for an N in 3..7, and there are buttons only while gameInProgress
\* is true.
C17_OgOrderIsIds ==
  /\ ogOrder = [i \in 1..Len(buttons) |-> buttons[i].id]
  /\ \/ ogOrder = <<>>
     \/ Len(ogOrder) \in 3..7 /\ \A i \in 1..Len(ogOrder) : ogOrder[i] = i - 1
  /\ buttons # <<>> => gameInProgress

\* a round of seven buttons was started by the second Go press
C17_Witness ==
  /\ goCount = 2
  /\ gameInProgress
  /\ Len(buttons) = 7
  /\ ogOrder = <<0, 1, 2, 3, 4, 5, 6>>

\* C18: once the round on the screen has hidden its numbers and as long as no
\* wrong button was clicked, a number is visible exactly when its button's id
\* is in clickedOrder.
C18_VisibleIffClicked ==
  (/\ buttons # <<>>
   /\ ~lost
   /\ \A j \in 1..Len(timers) :
        timers[j].round = CurrentRound => timers[j].pc # "display")
  => \A i \in 1..Len(buttons) :
       buttons[i].visible
         <=> \E c \in 1..Len(clickedOrder) : clickedOrder[c] = buttons[i].id

\* the round on the screen has just entered recall
EnteredRecall ==
  /\ buttons # <<>>
  /\ ~RoundPending
  /\ message = MSG_GAME_STARTED
  /\ \A i \in 1..Len(buttons) : buttons[i].listeners > 0

\* C16: a round whose coroutine is suspended is either replaced by a further
\* Go press or enters recall: the GAME_STARTED message is displayed and
\* every button has a click listener.
C16_EventuallyRecall ==
  \A g \in 1..(MaxGo + 1) :
    (goCount = g /\ buttons # <<>> /\ RoundPending)
      ~> (goCount # g \/ EnteredRecall)

\* the round of three buttons started by the first Go press is in recall
C16_Witness ==
  /\ goCount = 1
  /\ Len(buttons) = 3
  /\ EnteredRecall

\* C12: the buttons made by the first Go press with a valid n are exactly n,
\* with ids 0..n-1 in creation order, pairwise distinct colours of the
\* palette and visible numbers.
C12_MakeButton ==
  (goCount = 1 /\ gameInProgress)
  => LET n == timers[1].userValue
     IN /\ n \in 3..7
        /\ Len(buttons) = n
        /\ \A i \in 1..Len(buttons) :
             /\ buttons[i].id = i - 1
             /\ buttons[i].visible
             /\ buttons[i].color
                  \in {"red", "blue", "green", "yellow", "orange", "lime", "pink"}
        /\ \A i, j \in 1..Len(buttons) :
             i # j => buttons[i].color # buttons[j].color

\* seven buttons were made and the random choices gave the palette in an order
\* other than its own
C12_Witness ==
  /\ goCount = 1
  /\ Len(buttons) = 7
  /\ buttons[1].color = "pink"
  /\ buttons[2].color = "green"
  /\ buttons[7].color = "red"

====
